---- MODULE Spec2Model ----
(***************************************************************************)
(* The school-radio message backend: the access-token service, the theme   *)
(* service and the message service, as implemented twice, once over SQLite *)
(* (server/server.js) and once over MongoDB/mongoose (the second server    *)
(* file).  The variable `backend` says which of the two files is running.  *)
(***************************************************************************)
EXTENDS Integers, Sequences, FiniteSets, TLC

VARIABLES backend, tokens, reqs, nextToken, purged, lastIssued, settled, overlapped,
          themes, messages, now, resp

vars == <<backend, tokens, reqs, nextToken, purged, lastIssued, settled, overlapped,
          themes, messages, now, resp>>

tokenVars == <<tokens, reqs, nextToken, purged, lastIssued, settled, overlapped>>

(* ------------------------------ bounds --------------------------------- *)
NumReq      == 2   \* generate-url requests that can be in flight together
MaxTokens   == 3   \* uuids drawn in one run
MaxThemes   == 2   \* theme rows
MaxMessages == 2   \* message rows
MaxDay      == 3   \* calendar days the clock runs through (days 1..MaxDay)
TicksPerDay == 2   \* instants of one calendar day

(* ------------------------- JavaScript values --------------------------- *)
Undefined == "<undefined>"
Null      == "<null>"
NoDate    == 0     \* a date that is null / not supplied
NoToken   == 0     \* the token of {url: null, token: null}; also a string never issued

Truthy(v) == v \notin {Undefined, Null, ""}

Backends == {"sqlite", "mongo"}

Reqs == 1..NumReq

NoResp == [op |-> "none", status |-> 0, arg |-> 0, body |-> 0]

Reply(op, status, arg, body) == [op |-> op, status |-> status, arg |-> arg, body |-> body]

RECURSIVE SeqToSet(_)
SeqToSet(s) == IF s = <<>> THEN {} ELSE {Head(s)} \cup SeqToSet(Tail(s))

(* ======================== Access Token Service ========================= *)

\* A row of access_token: token, is_active (default 1/true).
TokenRow(t) == [token |-> t, is_active |-> TRUE]

StoredTokens == {tokens[i].token : i \in 1..Len(tokens)}

ActiveRows == {i \in 1..Len(tokens) : tokens[i].is_active}

\* DELETE FROM access_token / AccessToken.deleteMany({})
DeleteAllTokens(rows) == <<>>

\* INSERT INTO access_token (token, is_active) / AccessToken.create
InsertToken(rows, t) == Append(rows, TokenRow(t))

\* The rows get-current-token may answer with.  SQLite: LIMIT 1 with no
\* ORDER BY, any active row.  mongoose: sort created_at descending, the
\* newest active row.
CurrentCandidates ==
    IF backend = "sqlite" THEN ActiveRows
    ELSE {i \in ActiveRows : \A j \in ActiveRows : j <= i}

\* A lookup that leaves the token out of the condition.
VerifyAnyRow(t) == \E i \in 1..Len(tokens) : tokens[i].is_active

\* WHERE token = ? AND is_active = 1 / findOne({token, is_active: true})
VerifyRow(t) == \E i \in 1..Len(tokens) : tokens[i].token = t /\ tokens[i].is_active

\* GET /api/teacher/get-current-token
GetCurrentToken ==
    /\ \/ resp' = Reply("get-current-token", 500, 0, NoToken)
       \/ /\ CurrentCandidates = {}
          /\ resp' = Reply("get-current-token", 200, 0, NoToken)
       \/ \E i \in CurrentCandidates :
             resp' = Reply("get-current-token", 200, 0, tokens[i].token)
    /\ UNCHANGED <<backend, tokenVars, themes, messages, now>>

\* History kept for the statements below, none of it read by a handler:
\* purged     the tokens some delete has removed;
\* lastIssued the token of the latest generate-url that answered 200;
\* settled    "alone" / "overlap" when the latest generate-url step was a
\*            success with no other call in flight, the call having run
\*            alone / having overlapped another one; "no" otherwise;
\* overlapped whether two generate-url calls have ever been in flight together.

\* A request that holds no generate-url call.
IdleReq == [pc |-> "idle", token |-> NoToken, alone |-> TRUE]

\* POST /api/teacher/generate-url, first half: uuidv4() and the delete.
\* `alone` records that no other generate-url call is in flight.
GenerateUrlDelete(r) ==
    /\ reqs[r].pc = "idle"
    /\ nextToken <= MaxTokens
    /\ nextToken' = nextToken + 1
    /\ settled' = "no"
    /\ overlapped' = (overlapped \/ \E o \in Reqs \ {r} : reqs[o].pc # "idle")
    /\ \E ok \in BOOLEAN :
          IF ok
          THEN /\ tokens' = DeleteAllTokens(tokens)
               /\ purged' = purged \cup StoredTokens
               /\ reqs' = [q \in Reqs |->
                             IF q = r
                             THEN [pc |-> "deleted", token |-> nextToken,
                                   alone |-> \A o \in Reqs \ {r} : reqs[o].pc = "idle"]
                             ELSE [reqs[q] EXCEPT !.alone = (reqs[q].pc = "idle")]]
               /\ resp' = NoResp
          ELSE /\ resp' = Reply("generate-url", 500, "delete", NoToken)
               /\ UNCHANGED <<tokens, purged, reqs>>
    /\ UNCHANGED <<backend, lastIssued, themes, messages, now>>

\* POST /api/teacher/generate-url, second half: the insert and the answer.
GenerateUrlInsert(r) ==
    /\ reqs[r].pc = "deleted"
    /\ reqs' = [reqs EXCEPT ![r] = IdleReq]
    /\ \E ok \in BOOLEAN :
          IF ok
          THEN /\ tokens' = InsertToken(tokens, reqs[r].token)
               /\ lastIssued' = reqs[r].token
               /\ settled' = IF \E q \in Reqs \ {r} : reqs[q].pc # "idle" THEN "no"
                             ELSE IF reqs[r].alone THEN "alone" ELSE "overlap"
               /\ resp' = Reply("generate-url", 200, "insert", reqs[r].token)
          ELSE /\ resp' = Reply("generate-url", 500, "insert", NoToken)
               /\ settled' = "no"
               /\ UNCHANGED <<tokens, lastIssued>>
    /\ UNCHANGED <<backend, nextToken, purged, overlapped, themes, messages, now>>

\* GET /api/verify-token/:token
VerifyToken(t) ==
    /\ \/ resp' = Reply("verify-token", 500, t, FALSE)
       \/ resp' = IF VerifyRow(t) THEN Reply("verify-token", 200, t, TRUE)
                  ELSE Reply("verify-token", 401, t, FALSE)
    /\ UNCHANGED <<backend, tokenVars, themes, messages, now>>

(* ============================ Theme Service ============================ *)

\* An id as it arrives in a path parameter or a body field: "wf" is an id in
\* the format of the backend in use (an integer rowid, a 24-hex ObjectId)
\* naming row n, "junk" is a string in neither format (such as "abc"),
\* "absent" is a field that was not supplied.
WfId(n)  == [form |-> "wf", n |-> n]
JunkId   == [form |-> "junk", n |-> 0]
AbsentId == [form |-> "absent", n |-> 0]
NullId   == [form |-> "null", n |-> 0]

\* mongoose.Types.ObjectId.isValid(id)
IsValidObjectId(id) == id.form = "wf"

\* WHERE id = ? / findById: the rows (at most one) whose id is the given one.
RowsWithId(rows, id) == {i \in 1..Len(rows) : id.form = "wf" /\ id.n = i}

\* A calendar date 'YYYY-MM-DD' (day number d) as the row keeps it: SQLite
\* keeps the text, mongoose casts it to a Date, midnight of that day.
StoreDate(d) ==
    IF d = NoDate THEN NoDate
    ELSE IF backend = "mongo" THEN d * TicksPerDay ELSE d

\* new Date().toISOString().split('T')[0]
IsoDay(t) == t \div TicksPerDay

RECURSIVE DescSeq(_)
\* ORDER BY created_at DESC / sort({created_at: -1}) over rows kept in
\* insertion order.
DescSeq(S) ==
    IF S = {} THEN <<>>
    ELSE LET m == CHOOSE x \in S : \A y \in S : y <= x
         IN  <<m>> \o DescSeq(S \ {m})

\* GET /api/staff/themes: WHERE is_active = 1
StaffThemeIds == {i \in 1..Len(themes) : themes[i].is_active}

\* GET /api/student/themes on SQLite: the date columns against today's date.
SqliteOpen(th, t) ==
    LET today == IsoDay(t)
    IN  /\ th.is_active
        /\ (th.start_date = NoDate \/ th.start_date <= today)
        /\ (th.end_date = NoDate \/ th.end_date >= today)

\* GET /api/student/themes on mongoose: the Date fields against new Date().
MongoOpen(th, t) ==
    /\ th.is_active
    /\ (th.start_date = NoDate \/ th.start_date <= t)
    /\ (th.end_date = NoDate \/ th.end_date >= t)

StudentThemeIds ==
    {i \in 1..Len(themes) :
        IF backend = "sqlite" THEN SqliteOpen(themes[i], now) ELSE MongoOpen(themes[i], now)}

\* GET /api/staff/themes
GetStaffThemes ==
    /\ \E ok \in BOOLEAN :
          resp' = IF ok THEN Reply("staff-themes", 200, 0, DescSeq(StaffThemeIds))
                  ELSE Reply("staff-themes", 500, 0, <<>>)
    /\ UNCHANGED <<backend, tokenVars, themes, messages, now>>

\* GET /api/student/themes
GetStudentThemes ==
    /\ \E ok \in BOOLEAN :
          resp' = IF ok THEN Reply("student-themes", 200, 0, DescSeq(StudentThemeIds))
                  ELSE Reply("student-themes", 500, 0, <<>>)
    /\ UNCHANGED <<backend, tokenVars, themes, messages, now>>

\* POST /api/staff/themes
CreateTheme(title, description, start_date, end_date) ==
    /\ Len(themes) < MaxThemes
    /\ LET arg == [title |-> title, start_date |-> start_date, end_date |-> end_date]
       IN  IF ~Truthy(title)
           THEN /\ resp' = Reply("create-theme", 400, arg, 0)
                /\ UNCHANGED themes
           ELSE \E ok \in BOOLEAN :
                  IF ok
                  THEN /\ themes' = Append(themes,
                                      [title       |-> title,
                                       description |-> description,
                                       start_date  |-> StoreDate(start_date),
                                       end_date    |-> StoreDate(end_date),
                                       is_active   |-> TRUE])
                       /\ resp' = Reply("create-theme", 200, arg, Len(themes) + 1)
                  ELSE /\ resp' = Reply("create-theme", 500, arg, 0)
                       /\ UNCHANGED themes
    /\ UNCHANGED <<backend, tokenVars, messages, now>>

\* A hard delete in place of the soft one.
RemoveRows(rows, id) ==
    LET keep == DescSeq({i \in 1..Len(rows) : i \notin RowsWithId(rows, id)})
    IN  [k \in 1..Len(keep) |-> rows[keep[Len(keep) + 1 - k]]]

\* UPDATE themes SET is_active = 0 WHERE id = ? / findByIdAndUpdate
DeactivateRows(rows, id) ==
    [i \in 1..Len(rows) |->
        IF i \in RowsWithId(rows, id) THEN [rows[i] EXCEPT !.is_active = FALSE] ELSE rows[i]]

\* DELETE /api/staff/themes/:id on SQLite: the update, then success.
SqliteDeactivate(id) ==
    \E ok \in BOOLEAN :
       IF ok
       THEN /\ themes' = DeactivateRows(themes, id)
            /\ resp' = Reply("deactivate", 200, id, 0)
       ELSE /\ resp' = Reply("deactivate", 500, id, 0)
            /\ UNCHANGED themes

\* DELETE /api/staff/themes/:id on mongoose: isValid, update, 404 on no row.
MongoDeactivate(id) ==
    IF ~IsValidObjectId(id)
    THEN /\ resp' = Reply("deactivate", 400, id, 0)
         /\ UNCHANGED themes
    ELSE \E ok \in BOOLEAN :
           IF ~ok
           THEN /\ resp' = Reply("deactivate", 500, id, 0)
                /\ UNCHANGED themes
           ELSE /\ themes' = DeactivateRows(themes, id)
                /\ resp' = IF RowsWithId(themes, id) = {}
                           THEN Reply("deactivate", 404, id, 0)
                           ELSE Reply("deactivate", 200, id, 0)

DeactivateTheme(id) ==
    /\ IF backend = "sqlite" THEN SqliteDeactivate(id) ELSE MongoDeactivate(id)
    /\ UNCHANGED <<backend, tokenVars, messages, now>>

\* The server's clock moves on.
Tick ==
    /\ now < MaxDay * TicksPerDay + TicksPerDay - 1
    /\ now' = now + 1
    /\ resp' = NoResp
    /\ UNCHANGED <<backend, tokenVars, themes, messages>>

(* =========================== Message Service =========================== *)

\* `${school_year}年${school_class}組`, with "nen" for 年 and "kumi" for 組
FullClass(school_year, school_class) ==
    IF Truthy(school_year) /\ Truthy(school_class)
    THEN school_year \o "nen" \o school_class \o "kumi"
    ELSE Null

\* req.headers['x-forwarded-for'] || req.connection.remoteAddress
ClientIp(xff, remote) == IF Truthy(xff) THEN xff ELSE remote

OrNull(v) == IF Truthy(v) THEN v ELSE Null

\* value ? 1 : 0  /  !!value
Flag(v) == Truthy(v)

\* The theme_id column as SQLite keeps it: the bound value itself (NULL for
\* a value that was not supplied), no validation, foreign keys not enforced.
SqliteThemeRef(theme_id) == IF theme_id.form = "absent" THEN NullId ELSE theme_id

\* The row a submission inserts.
MessageRow(f, themeRef) ==
    [sender_name  |-> OrNull(f.sender_name),
     radio_name   |-> f.radio_name,
     school_class |-> FullClass(f.school_year, f.school_class),
     theme_id     |-> themeRef,
     content      |-> f.content,
     share_name   |-> Flag(f.share_name),
     share_class  |-> Flag(f.share_class),
     share_theme  |-> Flag(f.share_theme),
     ip_address   |-> ClientIp(f.xff, f.remote),
     is_read      |-> FALSE]

\* The insert itself and its answer, or the storage error.
InsertMessage(f, themeRef) ==
    \E ok \in BOOLEAN :
       IF ok
       THEN /\ messages' = Append(messages, MessageRow(f, themeRef))
            /\ resp' = Reply("submit", 200, f, Len(messages) + 1)
       ELSE /\ resp' = Reply("submit", 500, f, 0)
            /\ UNCHANGED messages

\* POST /api/student/messages on SQLite
SqliteSubmit(f) ==
    IF ~Truthy(f.radio_name) \/ ~Truthy(f.content)
    THEN /\ resp' = Reply("submit", 400, f, 0)
         /\ UNCHANGED messages
    ELSE InsertMessage(f, SqliteThemeRef(f.theme_id))

\* POST /api/student/messages on mongoose
MongoSubmit(f) ==
    IF ~Truthy(f.radio_name) \/ ~Truthy(f.content)
    THEN /\ resp' = Reply("submit", 400, f, 0)
         /\ UNCHANGED messages
    ELSE IF f.theme_id.form # "absent" /\ ~IsValidObjectId(f.theme_id)
    THEN /\ resp' = Reply("submit", 400, f, 0)
         /\ UNCHANGED messages
    ELSE InsertMessage(f, IF f.theme_id.form # "absent" THEN f.theme_id ELSE NullId)

SubmitMessage(f) ==
    /\ Len(messages) < MaxMessages
    /\ IF backend = "sqlite" THEN SqliteSubmit(f) ELSE MongoSubmit(f)
    /\ UNCHANGED <<backend, tokenVars, themes, now>>

\* LEFT JOIN themes t ON m.theme_id = t.id, t.title as theme_title
SqliteThemeTitle(m) ==
    LET hit == RowsWithId(themes, m.theme_id)
    IN  IF hit = {} THEN Null ELSE themes[CHOOSE i \in hit : TRUE].title

\* populate('theme_id', 'title'), then m.theme_id ? m.theme_id.title : null
MongoThemeTitle(m) ==
    LET populated == IF m.theme_id = NullId THEN {} ELSE RowsWithId(themes, m.theme_id)
    IN  IF populated # {} THEN themes[CHOOSE i \in populated : TRUE].title ELSE Null

\* A join that leaves deactivated themes out.
ThemeTitleIfActive(m) ==
    LET hit == {i \in RowsWithId(themes, m.theme_id) : themes[i].is_active}
    IN  IF hit = {} THEN Null ELSE themes[CHOOSE i \in hit : TRUE].title

ThemeTitle(m) == IF backend = "sqlite" THEN SqliteThemeTitle(m) ELSE MongoThemeTitle(m)

\* One entry of GET /api/staff/messages: every column, and theme_title.
StaffEntry(i) ==
    [id           |-> i,
     sender_name  |-> messages[i].sender_name,
     radio_name   |-> messages[i].radio_name,
     school_class |-> messages[i].school_class,
     content      |-> messages[i].content,
     share_name   |-> messages[i].share_name,
     share_class  |-> messages[i].share_class,
     share_theme  |-> messages[i].share_theme,
     ip_address   |-> messages[i].ip_address,
     is_read      |-> messages[i].is_read,
     theme_title  |-> ThemeTitle(messages[i])]

\* One entry of GET /api/teacher/logs: the reduced projection.
LogEntry(i) ==
    [id           |-> i,
     sender_name  |-> messages[i].sender_name,
     radio_name   |-> messages[i].radio_name,
     school_class |-> messages[i].school_class,
     content      |-> messages[i].content,
     ip_address   |-> messages[i].ip_address,
     theme_title  |-> ThemeTitle(messages[i])]

\* The rows a listing of messages goes through: all of them, no WHERE.
ListedMessageIds == 1..Len(messages)

StaffMessages ==
    LET ids == DescSeq(ListedMessageIds)
    IN  [k \in 1..Len(ids) |-> StaffEntry(ids[k])]

TeacherLogs ==
    LET ids == DescSeq(ListedMessageIds)
    IN  [k \in 1..Len(ids) |-> LogEntry(ids[k])]

\* GET /api/staff/messages
GetStaffMessages ==
    /\ \E ok \in BOOLEAN :
          resp' = IF ok THEN Reply("staff-messages", 200, 0, StaffMessages)
                  ELSE Reply("staff-messages", 500, 0, <<>>)
    /\ UNCHANGED <<backend, tokenVars, themes, messages, now>>

\* GET /api/teacher/logs
GetTeacherLogs ==
    /\ \E ok \in BOOLEAN :
          resp' = IF ok THEN Reply("teacher-logs", 200, 0, TeacherLogs)
                  ELSE Reply("teacher-logs", 500, 0, <<>>)
    /\ UNCHANGED <<backend, tokenVars, themes, messages, now>>

\* UPDATE messages SET is_read = 1 WHERE id = ? / findByIdAndUpdate
MarkRows(rows, id) ==
    [i \in 1..Len(rows) |->
        IF i \in RowsWithId(rows, id) THEN [rows[i] EXCEPT !.is_read = TRUE] ELSE rows[i]]

\* PUT /api/staff/messages/:id/read on SQLite
SqliteMarkRead(id) ==
    \E ok \in BOOLEAN :
       IF ok
       THEN /\ messages' = MarkRows(messages, id)
            /\ resp' = Reply("mark-read", 200, id, 0)
       ELSE /\ resp' = Reply("mark-read", 500, id, 0)
            /\ UNCHANGED messages

\* PUT /api/staff/messages/:id/read on mongoose
MongoMarkRead(id) ==
    IF ~IsValidObjectId(id)
    THEN /\ resp' = Reply("mark-read", 400, id, 0)
         /\ UNCHANGED messages
    ELSE \E ok \in BOOLEAN :
           IF ok
           THEN /\ messages' = MarkRows(messages, id)
                /\ resp' = Reply("mark-read", 200, id, 0)
           ELSE /\ resp' = Reply("mark-read", 500, id, 0)
                /\ UNCHANGED messages

MarkRead(id) ==
    /\ IF backend = "sqlite" THEN SqliteMarkRead(id) ELSE MongoMarkRead(id)
    /\ UNCHANGED <<backend, tokenVars, themes, now>>

(* ============================== requests ============================== *)

Titles == {"A", "B"}

TitleInputs == Titles \cup {Undefined, ""}

\* The dates a theme is created with: none, or the second day of the run.
DateInputs == {NoDate, 2}

ThemeIdInputs == {WfId(n) : n \in 1..(MaxThemes + 1)} \cup {JunkId}

MessageIdInputs == {WfId(n) : n \in 1..(MaxMessages + 1)} \cup {JunkId}

\* The body of the spec's first example: radio_name and content only.
MinimalForm ==
    [sender_name |-> Undefined, radio_name |-> "Taro", school_year |-> Undefined,
     school_class |-> Undefined, theme_id |-> AbsentId, content |-> "hello",
     share_name |-> Undefined, share_class |-> Undefined, share_theme |-> Undefined,
     xff |-> Undefined, remote |-> "10.0.0.1"]

\* Every optional field filled in.
FullForm ==
    [sender_name |-> "Hanako", radio_name |-> "Taro", school_year |-> "2",
     school_class |-> "B", theme_id |-> AbsentId, content |-> "hello",
     share_name |-> "on", share_class |-> Undefined, share_theme |-> "on",
     xff |-> "203.0.113.7", remote |-> "10.0.0.1"]

BaseForms ==
    {MinimalForm, FullForm,
     [MinimalForm EXCEPT !.school_year = "2"],
     [MinimalForm EXCEPT !.school_class = "B"],
     [FullForm EXCEPT !.radio_name = ""],
     [MinimalForm EXCEPT !.radio_name = Undefined],
     [FullForm EXCEPT !.content = ""],
     [MinimalForm EXCEPT !.content = Undefined]}

SubmitInputs ==
    {[f EXCEPT !.theme_id = t] :
        f \in BaseForms, t \in {AbsentId, JunkId} \cup {WfId(n) : n \in 1..MaxThemes}}

Init ==
    /\ backend \in Backends
    /\ tokens = <<>>
    /\ reqs = [r \in Reqs |-> IdleReq]
    /\ nextToken = 1
    /\ purged = {}
    /\ lastIssued = NoToken
    /\ settled = "no"
    /\ overlapped = FALSE
    /\ themes = <<>>
    /\ messages = <<>>
    /\ now = TicksPerDay
    /\ resp = NoResp

NextToken ==
    \/ GetCurrentToken
    \/ \E r \in Reqs : GenerateUrlDelete(r)
    \/ \E r \in Reqs : GenerateUrlInsert(r)
    \/ \E t \in 0..MaxTokens : VerifyToken(t)

SpecToken == Init /\ [][NextToken]_vars

NextTheme ==
    \/ \E t \in TitleInputs, s \in DateInputs, e \in DateInputs : CreateTheme(t, Undefined, s, e)
    \/ \E id \in ThemeIdInputs : DeactivateTheme(id)
    \/ GetStaffThemes
    \/ GetStudentThemes
    \/ Tick

SpecTheme == Init /\ [][NextTheme]_vars

NextMessage ==
    \/ \E t \in TitleInputs : CreateTheme(t, Undefined, NoDate, NoDate)
    \/ \E id \in ThemeIdInputs : DeactivateTheme(id)
    \/ \E f \in SubmitInputs : SubmitMessage(f)
    \/ \E id \in MessageIdInputs : MarkRead(id)
    \/ GetStaffMessages
    \/ GetTeacherLogs

SpecMessage == Init /\ [][NextMessage]_vars

\* The rows one run of the two specifications below creates, themes and
\* messages together.
MaxRows == 4

RowBudget == Len(themes) + Len(messages) < MaxRows

\* The forms the listings are checked on: the minimal one with every kind of
\* theme_id, and the full one.
ListingForms ==
    {[MinimalForm EXCEPT !.theme_id = t] :
        t \in {AbsentId, JunkId} \cup {WfId(n) : n \in 1..MaxThemes}} \cup {FullForm}

\* Themes, messages that refer to them or to nothing, and the two listings of
\* messages.
NextListing ==
    \/ RowBudget /\ \E t \in Titles : CreateTheme(t, Undefined, NoDate, NoDate)
    \/ \E n \in 1..MaxThemes : DeactivateTheme(WfId(n))
    \/ RowBudget /\ \E f \in ListingForms : SubmitMessage(f)
    \/ \E n \in 1..MaxMessages : MarkRead(WfId(n))
    \/ GetStaffMessages
    \/ GetTeacherLogs

SpecListing == Init /\ [][NextListing]_vars

\* Themes with an end date, the clock, and messages that refer to the first
\* theme.
NextLifecycle ==
    \/ RowBudget /\ \E e \in DateInputs : CreateTheme("A", Undefined, NoDate, e)
    \/ \E n \in 1..MaxThemes : DeactivateTheme(WfId(n))
    \/ RowBudget /\ SubmitMessage([MinimalForm EXCEPT !.theme_id = WfId(1)])
    \/ \E n \in 1..MaxMessages : MarkRead(WfId(n))
    \/ GetStaffThemes
    \/ GetStudentThemes
    \/ Tick

SpecLifecycle == Init /\ [][NextLifecycle]_vars

(* ============================ statements ============================== *)

AllIdle == \A r \in Reqs : reqs[r].pc = "idle"

\* The step in which request r's insert fails: r leaves the "deleted" stage
\* and its token is not in the store.
InsertFails(r) ==
    /\ reqs[r].pc = "deleted"
    /\ reqs'[r].pc = "idle"
    /\ reqs[r].token \notin StoredTokens'

\* C1: in every reachable state, under any interleaving of requests, the
\* access-token record set holds at most one row.
C1_AtMostOneTokenRow == Len(tokens) <= 1

\* C2 as stated, for issue() calls made one after the other: with no
\* generate-url call in flight, verify(t) answers valid=true if and only if t
\* is the token of the most recent successful issue().
C2_VerifyIffLatestIssued ==
    (resp.op = "verify-token" /\ resp.status # 500 /\ AllIdle /\ ~overlapped)
        => ((resp.status = 200) <=> (lastIssued # NoToken /\ resp.arg = lastIssued))

\* C2 as amended: verify(t) answers valid=true (200) if and only if a row
\* with token t is stored at that moment, and 401 otherwise; a token that a
\* delete step has removed is never stored, so never valid, again; and when
\* the latest generate-url step is the success of a call that overlapped no
\* other call, the stored tokens are exactly the one it returned.
C2_VerifyIffStored ==
    /\ purged \cap StoredTokens = {}
    /\ (settled = "alone") => (StoredTokens = {lastIssued} /\ Len(tokens) = 1)
    /\ (resp.op = "verify-token" /\ resp.status # 500)
          => /\ resp.status \in {200, 401}
             /\ (resp.status = 200) <=> (resp.arg \in StoredTokens)
             /\ (resp.status = 200) <=> (resp.body = TRUE)
             /\ (resp.arg \in purged) => (resp.status = 401)

\* C2 witness: a token issued earlier and since replaced by a successful
\* later issue() is verified and refused.
C2_Witness ==
    /\ resp = Reply("verify-token", 401, 1, FALSE)
    /\ 1 \in purged
    /\ settled = "alone"
    /\ lastIssued = 2

\* C3: after an issue() that answered success with token t exactly one row
\* exists, active and with token t; a getCurrent() made with no further
\* issue() in between answers t, and with no row stored it answers the null
\* result.
C3_IssueLeavesOneRow ==
    /\ (resp.op = "generate-url" /\ resp.status = 200)
          => (Len(tokens) = 1 /\ tokens[1] = TokenRow(resp.body))
    /\ (resp.op = "get-current-token" /\ resp.status # 500)
          => /\ resp.status = 200
             /\ (tokens = <<>>) => (resp.body = NoToken)
             /\ (settled # "no") => (resp.body = lastIssued)

\* C4: when the delete succeeded and the insert fails, the request
\* answers 500 and the store is left with zero rows: verify of every token is
\* false and getCurrent() finds no row.
C4_FailedInsertLeavesNoRows ==
    [][\A r \in Reqs :
          InsertFails(r)
             => /\ resp'.op = "generate-url" /\ resp'.status = 500
                /\ tokens' = <<>>
                /\ \A t \in 0..MaxTokens : ~VerifyRow(t)'
                /\ CurrentCandidates' = {}]_vars

\* C5: deactivate(id) answers 400 for an id that is not well-formed and 404
\* for an id no theme has, changing no theme in both cases; for an existing
\* theme it sets is_active=false and answers success (both backends).
C5_DeactivateContract ==
    [][(resp'.op = "deactivate" /\ resp'.status # 500)
          => LET id == resp'.arg
             IN  IF id.form # "wf"
                 THEN resp'.status = 400 /\ themes' = themes
                 ELSE IF id.n \notin 1..Len(themes)
                 THEN resp'.status = 404 /\ themes' = themes
                 ELSE /\ resp'.status = 200
                      /\ themes' = [themes EXCEPT ![id.n].is_active = FALSE]]_vars

\* The calendar day of a stored date, and today's.
CalendarDay(v) == IF backend = "mongo" THEN v \div TicksPerDay ELSE v

Today == now \div TicksPerDay

\* "Currently open": active, and today within start_date .. end_date, both
\* inclusive, compared by calendar day.
CurrentlyOpen(th) ==
    /\ th.is_active
    /\ (th.start_date = NoDate \/ CalendarDay(th.start_date) <= Today)
    /\ (th.end_date = NoDate \/ CalendarDay(th.end_date) >= Today)

\* C6: the student listing contains a theme if and only if the theme is
\* currently open, by calendar day and whatever the time of day; a theme that
\* is active but closed is still in the staff listing.
C6_StudentListIsOpenThemes ==
    (resp.op = "student-themes" /\ resp.status = 200)
        => \A i \in 1..Len(themes) :
              /\ (i \in SeqToSet(resp.body)) <=> CurrentlyOpen(themes[i])
              /\ themes[i].is_active => (i \in StaffThemeIds)

\* C7: a submission whose radio_name or content is empty or absent, or whose
\* theme_id is supplied and not well-formed, answers 400 and creates no row;
\* every other submission creates exactly one row, with is_read=false and
\* school_class "{year}nen{class}kumi" when both were supplied, null otherwise
\* (both backends).
C7_SubmitContract ==
    [][(resp'.op = "submit" /\ resp'.status # 500)
          => LET f == resp'.arg
             IN  IF \/ f.radio_name \in {Undefined, ""}
                    \/ f.content \in {Undefined, ""}
                    \/ f.theme_id.form = "junk"
                 THEN resp'.status = 400 /\ messages' = messages
                 ELSE /\ resp'.status = 200
                      /\ Len(messages') = Len(messages) + 1
                      /\ SubSeq(messages', 1, Len(messages)) = messages
                      /\ ~messages'[Len(messages')].is_read
                      /\ messages'[Len(messages')].school_class =
                            IF f.school_year # Undefined /\ f.school_class # Undefined
                            THEN f.school_year \o "nen" \o f.school_class \o "kumi"
                            ELSE Null]_vars

\* C8: markRead(id) with a well-formed id answers success, sets is_read of
\* the message with that id (if there is one) and changes nothing else; with
\* a malformed id it answers 400 and changes nothing; no step sets is_read
\* back to false.
C8_MarkReadContract ==
    [][/\ (resp'.op = "mark-read" /\ resp'.status # 500)
          => LET id == resp'.arg
             IN  IF id.form = "wf"
                 THEN /\ resp'.status = 200
                      /\ messages' = [i \in 1..Len(messages) |->
                                        IF i = id.n
                                        THEN [messages[i] EXCEPT !.is_read = TRUE]
                                        ELSE messages[i]]
                 ELSE resp'.status = 400 /\ messages' = messages
       /\ \A i \in 1..Len(messages) :
             messages[i].is_read => (i <= Len(messages') /\ messages'[i].is_read)]_vars

\* The title the spec gives a message: that of the theme whose id is the
\* message's theme_id, null when there is no theme_id or no such theme.
ExpectedTitle(m) ==
    IF m.theme_id.form = "wf" /\ m.theme_id.n \in 1..Len(themes)
    THEN themes[m.theme_id.n].title
    ELSE Null

\* C9: the staff listing and the teacher log each contain every stored
\* message exactly once, whatever its is_read and share flags, with
\* theme_title the title of the theme the message refers to (deactivated or
\* not) and null when it refers to none.
C9_ListingsShowEveryMessage ==
    (resp.op \in {"staff-messages", "teacher-logs"} /\ resp.status = 200)
        => /\ Len(resp.body) = Len(messages)
           /\ \A i \in 1..Len(messages) :
                 \E k \in 1..Len(resp.body) :
                    /\ resp.body[k].id = i
                    /\ \A j \in 1..Len(resp.body) : resp.body[j].id = i => j = k
                    /\ resp.body[k].theme_title = ExpectedTitle(messages[i])
                    /\ resp.body[k].content = messages[i].content
                    /\ resp.body[k].radio_name = messages[i].radio_name
                    /\ (resp.op = "staff-messages")
                          => /\ resp.body[k].is_read = messages[i].is_read
                             /\ resp.body[k].share_name = messages[i].share_name
                             /\ resp.body[k].share_class = messages[i].share_class
                             /\ resp.body[k].share_theme = messages[i].share_theme

\* C9 witness: the teacher log shows two messages, one that has been read,
\* refers to a deactivated theme and carries that theme's title, one with
\* share flags set that refers to no existing theme and has a null title.
C9_Witness ==
    /\ resp.op = "teacher-logs" /\ resp.status = 200
    /\ Len(resp.body) = 2
    /\ Len(themes) = 2 /\ themes[1].title # themes[2].title
    /\ \E i, j \in 1..Len(messages) :
          /\ messages[i].is_read
          /\ messages[i].theme_id = WfId(2)
          /\ ~themes[2].is_active
          /\ resp.body[3 - i].theme_title = themes[2].title
          /\ messages[j].share_name
          /\ messages[j].theme_id = NullId
          /\ resp.body[3 - j].theme_title = Null

\* C10: theme rows and message rows are never removed or rewritten apart from
\* the two flags, a theme's is_active never goes back to true, and a theme
\* that is not active is in neither theme listing.
C10_SoftDeleteIsOneWay ==
    [][/\ Len(themes') >= Len(themes)
       /\ Len(messages') >= Len(messages)
       /\ \A i \in 1..Len(themes) :
             /\ themes'[i] \in {themes[i], [themes[i] EXCEPT !.is_active = FALSE]}
             /\ ~themes[i].is_active => ~themes'[i].is_active
       /\ \A i \in 1..Len(messages) :
             messages'[i] \in {messages[i], [messages[i] EXCEPT !.is_read = TRUE]}
       /\ \A i \in 1..Len(themes') :
             ~themes'[i].is_active
                => /\ i \notin StaffThemeIds'
                   /\ i \notin StudentThemeIds'
                   /\ resp'.op \in {"staff-themes", "student-themes"}
                         => i \notin SeqToSet(resp'.body)]_vars

\* C10 witness: a theme with a message referring to it was deactivated, the
\* clock has moved on, and the student listing, asked again, lists another
\* theme and not that one.
C10_Witness ==
    /\ resp.op = "student-themes" /\ resp.status = 200
    /\ now > TicksPerDay
    /\ Len(themes) = 2
    /\ ~themes[1].is_active
    /\ \E i \in 1..Len(messages) : messages[i].theme_id = WfId(1)
    /\ resp.body = <<2>>

====
